---- MODULE Spec2Model ----
(***************************************************************************)
(* Kiddy Chat API (src/main.py): the in-memory session store, the content  *)
(* filter, the system-prompt composition and the request handlers.         *)
(*                                                                         *)
(* A text is a sequence of tokens.  A token is a maximal run of word       *)
(* characters ("hate", "HATE", "hateful"), a maximal run of whitespace     *)
(* (" " is one space, "  " any other whitespace run) or a fixed sentence   *)
(* of the program kept as one token.  Two word tokens are never adjacent.  *)
(*                                                                         *)
(* A request is served as FastAPI serves it: the dependency               *)
(* validate_session first, then the handler body.  The handlers are async  *)
(* defs without an await, so a handler body runs on the event loop in one  *)
(* piece; the OpenAI call inside query is synchronous and holds the event  *)
(* loop while it is outstanding.  Spec and SpecChat serve one request      *)
(* after the other; SpecRace and SpecPair serve requests in parallel.      *)
(***************************************************************************)
EXTENDS Integers, Sequences, FiniteSets, Bags, TLC

VARIABLES
    sessions,   \* the dict sessions: session id -> session data
    issued,     \* the ids uuid4 has handed out
    ended,      \* the ids whose end_session succeeded
    now,        \* datetime.now(), in hours
    inflight,   \* the session whose query waits for the gateway, or NoCall
    resp,       \* the response the latest step sent, or NoResp
    sent,       \* the messages the latest step handed to the gateway, or <<>>
    calls       \* SpecRace: the requests accepted and not yet answered (a bag)

vars == <<sessions, issued, ended, now, inflight, resp, sent, calls>>

(***************************************************************************)
(* Bounds of the model.  Spec follows the store through time with few      *)
(* texts; SpecChat follows the conversations with every kind of text and   *)
(* the clock standing still.                                               *)
(***************************************************************************)
MaxTokens == 2        \* Spec: sessions ever created
MaxHistory == 3       \* Spec: longest history
MaxTime == 25         \* Spec: the clock stops advancing here (hours)
MaxChatTokens == 1    \* SpecChat: sessions ever created
MaxChatHistory == 3   \* SpecChat: longest history

\* datetime.now() advances between two steps by one of these numbers of hours
TickSteps == {23, 24, 25}

(***************************************************************************)
(* Program constants.                                                      *)
(***************************************************************************)
\* timedelta(hours=24) in cleanup_expired_sessions
TtlHours == 24

SpaceTokens == {" ", "  "}

\* str.lower() on one token
LowerToken(w) ==
    CASE w = "HATE" -> "hate"
      [] w = "I" -> "i"
      [] w = "Scary" -> "scary"
      [] OTHER -> w

RECURSIVE Lower(_)
Lower(t) == IF t = <<>> THEN <<>> ELSE <<LowerToken(Head(t))>> \o Lower(Tail(t))

\* str.strip(): leading and trailing whitespace removed
RECURSIVE LStrip(_)
LStrip(t) == IF t # <<>> /\ Head(t) \in SpaceTokens THEN LStrip(Tail(t)) ELSE t

RECURSIVE RStrip(_)
RStrip(t) ==
    IF t # <<>> /\ t[Len(t)] \in SpaceTokens THEN RStrip(SubSeq(t, 1, Len(t) - 1)) ELSE t

Strip(t) == RStrip(LStrip(t))

\* an emptiness test that forgets to strip
IsBlankUnstripped(t) == t = <<>>

\* "not s.strip()"
IsBlank(t) == Strip(t) = <<>>

\* re.search of a literal token sequence
Contains(sub, t) ==
    \E i \in 1..(Len(t) - Len(sub) + 1) : SubSeq(t, i, i + Len(sub) - 1) = sub

INAPPROPRIATE_WORDS ==
    { <<"stupid">>, <<"idiot">>, <<"hate">>, <<"kill">>, <<"die">>, <<"death">>,
      <<"blood">>, <<"violence">>, <<"weapon">>, <<"gun">>, <<"knife">>, <<"fight">>,
      <<"hurt">>, <<"pain">>, <<"scary">>, <<"monster">>, <<"devil">>, <<"hell">>,
      <<"damn">>, <<"crap">>, <<"shut", " ", "up">>, <<"loser">>, <<"dumb">>,
      <<"ugly">>, <<"fat">>, <<"skinny">> }

\* r'\b(i hate|you suck|go away|shut up)\b'
PatternPhrases ==
    { <<"i", " ", "hate">>, <<"you", " ", "suck">>, <<"go", " ", "away">>,
      <<"shut", " ", "up">> }

\* r'\b(stupid|dumb|idiot)\s+(person|kid|child|boy|girl)\b' and
\* r'\b(kill|hurt|hit|punch|kick)\s+(someone|somebody|people)\b'
PatternPairs ==
    ({"stupid", "dumb", "idiot"} \X {"person", "kid", "child", "boy", "girl"})
    \cup ({"kill", "hurt", "hit", "punch", "kick"} \X {"someone", "somebody", "people"})

INAPPROPRIATE_PATTERNS(t) ==
    \/ \E p \in PatternPhrases : Contains(p, t)
    \/ \E i \in 1..(Len(t) - 2) :
          /\ <<t[i], t[i + 2]>> \in PatternPairs
          /\ t[i + 1] \in SpaceTokens

contains_inappropriate_content(message) ==
    LET message_lower == Strip(Lower(message))
    IN  \/ \E word \in INAPPROPRIATE_WORDS : Contains(word, message_lower)
        \/ INAPPROPRIATE_PATTERNS(message_lower)

BetterWayResponse ==
    <<"I want to make sure I'm being helpful and appropriate. Let me think of a better way to answer that! What else would you like to know?">>

error_response ==
    <<"Oops! I'm having a little trouble right now. Can you try asking me something else?">>

KIDS_FRIENDLY_RESPONSES ==
    { <<"I can't help with that kind of talk. Let's use kind words instead!">>,
      <<"Oops! That's not very nice language. How about we talk about something fun instead?">>,
      <<"Let's keep our conversation friendly and positive! What would you like to learn about today?">>,
      <<"I'm here to have nice conversations with you. Can we use gentler words please?">>,
      <<"That doesn't sound very kind. Let's chat about something that makes you happy!">> }

\* a refusal taken from outside the fixed set
get_kid_friendly_response_other == KIDS_FRIENDLY_RESPONSES \cup {BetterWayResponse}

\* random.choice: any member
get_kid_friendly_response == KIDS_FRIENDLY_RESPONSES

get_kids_system_prompt ==
    <<"You are a helpful, friendly, and safe AI assistant designed specifically for children.">>

AdditionalHeader == <<"\n\n", "Additional instructions for this session:", " ">>

\* Optional[str]: <<>> is None, <<t>> is the string t
None == <<>>
Some(t) == <<t>>

\* the system prompt built in create_session: "if additional_prompt:" is false
\* for None and for the empty string
CombinedPrompt(additional_prompt) ==
    IF additional_prompt # None /\ additional_prompt[1] # <<>>
    THEN get_kids_system_prompt \o AdditionalHeader \o additional_prompt[1]
    ELSE get_kids_system_prompt

\* the system prompt rebuilt in add_session_prompt
RebuiltPrompt(text) == get_kids_system_prompt \o AdditionalHeader \o text

Message(role, content) == [role |-> role, content |-> content]

(***************************************************************************)
(* Inputs.                                                                 *)
(***************************************************************************)
Usernames == { <<>>, <<"  ">>, <<"amy">> }

UserMessages == { <<>>, <<" ">>, <<"hi">>, <<"I", " ", "HATE", " ", "you">> }

Prompts == { <<" ">>, <<"talk", " ", "about", " ", "space">>, <<"be", " ", "gentle">> }

\* what the model behind the gateway may answer
Replies == { <<"hello", " ", "amy">>, <<"a", " ", "Scary", " ", "story">> }

\* the texts of Spec
StoreUsernames == { <<"  ">>, <<"amy">> }

StoreMessages == { <<" ">>, <<"hi">> }

StorePrompts == { <<" ">>, <<"be", " ", "gentle">> }

StoreReplies == { <<"hello", " ", "amy">> }

\* no query is waiting for the gateway
NoCall == 0

\* resp: the bearer token of the request (the new id for initiate), the HTTP
\* status, the reply text of query and the count of get_active_sessions
NoResp == [tok |-> 0, status |-> 0, body |-> <<>>, count |-> 0]

Response(tok, status, body) == [tok |-> tok, status |-> status, body |-> body, count |-> 0]

\* an event loop the gateway call does not hold
LoopNeverHeld == TRUE

\* the event loop is held by the handler that waits for the gateway
LoopFree == inflight = NoCall

(***************************************************************************)
(* Session management.                                                     *)
(***************************************************************************)
\* an id generator that hands out the same id again
uuid4_repeating == Cardinality(DOMAIN sessions) + 1

\* uuid.uuid4(): an id never handed out before; ids are interchangeable, so
\* the least unused number stands for it
uuid4 == Cardinality(issued) + 1

create_session(S, session_id, username, additional_prompt) ==
    [t \in DOMAIN S \cup {session_id} |->
        IF t = session_id
        THEN [username |-> username,
              created_at |-> now,
              last_activity |-> now,
              additional_prompt |-> additional_prompt,
              messages |-> <<Message("system", CombinedPrompt(additional_prompt))>>]
        ELSE S[t]]

\* a sweep that also removes the session idle for exactly 24 hours
ExpiredAtCutoff(session_data, at) == session_data.last_activity <= at - TtlHours

Expired(session_data, at) == session_data.last_activity < at - TtlHours

\* a sweep that removes nothing
cleanup_skipped(S, at) == S

cleanup_expired_sessions(S, at) ==
    LET expired_sessions == {t \in DOMAIN S : Expired(S[t], at)}
    IN  [t \in DOMAIN S \ expired_sessions |-> S[t]]

\* a validation that leaves last_activity alone
TouchNothing(S, session_id) == S

Touch(S, session_id) == [S EXCEPT ![session_id].last_activity = now]

\* a store that forgets the user turn
AppendMessageAssistantOnly(S, session_id, role, content) ==
    IF role = "user"
    THEN S
    ELSE [S EXCEPT ![session_id].messages = Append(@, Message(role, content))]

\* an append that keeps the system message and drops the turns before
AppendMessageTruncating(S, session_id, role, content) ==
    [S EXCEPT ![session_id].messages = <<@[1], Message(role, content)>>]

\* an append that stores the message twice
AppendMessageTwice(S, session_id, role, content) ==
    [S EXCEPT ![session_id].messages = @ \o <<Message(role, content), Message(role, content)>>]

AppendMessage(S, session_id, role, content) ==
    [S EXCEPT ![session_id].messages = Append(@, Message(role, content))]

Remove(S, session_id) == [t \in DOMAIN S \ {session_id} |-> S[t]]

Init ==
    /\ sessions = << >>
    /\ issued = {}
    /\ ended = {}
    /\ now = 0
    /\ inflight = NoCall
    /\ resp = NoResp
    /\ sent = <<>>
    /\ calls = EmptyBag

(***************************************************************************)
(* Handlers without authentication.                                        *)
(***************************************************************************)
initiate_session(username) ==
    /\ LoopFree
    /\ sent' = <<>>
    /\ IF IsBlank(username)
       THEN /\ resp' = Response(0, 400, <<>>)
            /\ UNCHANGED <<sessions, issued, ended, now, inflight>>
       ELSE LET session_id == uuid4
            IN  /\ sessions' = create_session(cleanup_expired_sessions(sessions, now),
                                              session_id, username, None)
                /\ issued' = issued \cup {session_id}
                /\ resp' = Response(session_id, 200, <<>>)
                /\ UNCHANGED <<ended, now, inflight>>

get_active_sessions ==
    /\ LoopFree
    /\ sessions' = cleanup_expired_sessions(sessions, now)
    /\ resp' = [Response(0, 200, <<>>) EXCEPT !.count = Cardinality(DOMAIN sessions')]
    /\ sent' = <<>>
    /\ UNCHANGED <<issued, ended, now, inflight>>

(***************************************************************************)
(* validate_session, the dependency of every authenticated handler: the    *)
(* store it leaves, given that the id is in the store.                     *)
(***************************************************************************)
validate_session(S, session_id) == Touch(S, session_id)

\* a 401 that leaves a session behind under the id presented
UnauthorizedCreating(session_id) ==
    /\ resp' = Response(session_id, 401, <<>>)
    /\ sessions' = create_session(sessions, session_id, <<"amy">>, None)
    /\ sent' = <<>>
    /\ UNCHANGED <<issued, ended, now, inflight>>

\* HTTP 401 "Invalid session ID"
Unauthorized(session_id) ==
    /\ resp' = Response(session_id, 401, <<>>)
    /\ sent' = <<>>
    /\ UNCHANGED <<sessions, issued, ended, now, inflight>>

(***************************************************************************)
(* Authenticated handlers.                                                 *)
(***************************************************************************)
\* a reply passed on without the safety check
CheckedReplyUnfiltered(assistant_message) == assistant_message

\* the safety check on the reply of client.chat.completions.create
CheckedReply(assistant_message) ==
    IF contains_inappropriate_content(assistant_message)
    THEN BetterWayResponse
    ELSE assistant_message

query(session_id, message) ==
    /\ LoopFree
    /\ IF session_id \notin DOMAIN sessions
       THEN Unauthorized(session_id)
       ELSE LET S == validate_session(sessions, session_id)
            IN  IF IsBlank(message)
                THEN /\ sessions' = S
                     /\ resp' = Response(session_id, 400, <<>>)
                     /\ sent' = <<>>
                     /\ UNCHANGED <<issued, ended, now, inflight>>
                ELSE IF contains_inappropriate_content(message)
                THEN \E kid_friendly_response \in get_kid_friendly_response :
                     /\ sessions' =
                           AppendMessage(AppendMessage(S, session_id, "user", message),
                                         session_id, "assistant", kid_friendly_response)
                     /\ resp' = Response(session_id, 200, kid_friendly_response)
                     /\ sent' = <<>>
                     /\ UNCHANGED <<issued, ended, now, inflight>>
                ELSE /\ sessions' = AppendMessage(S, session_id, "user", message)
                     /\ sent' = sessions'[session_id].messages
                     /\ inflight' = session_id
                     /\ resp' = NoResp
                     /\ UNCHANGED <<issued, ended, now>>

\* a call given up when the gateway returns: nothing appended, nothing answered
gateway_return_abandoned(reply) ==
    /\ inflight # NoCall
    /\ inflight' = NoCall
    /\ resp' = NoResp
    /\ sent' = <<>>
    /\ UNCHANGED <<sessions, issued, ended, now>>

\* client.chat.completions.create returned
gateway_return(reply) ==
    /\ inflight # NoCall
    /\ sessions' = AppendMessage(sessions, inflight, "assistant", CheckedReply(reply))
    /\ resp' = Response(inflight, 200, CheckedReply(reply))
    /\ inflight' = NoCall
    /\ sent' = <<>>
    /\ UNCHANGED <<issued, ended, now>>

\* a failure answered but not recorded
gateway_fail_unrecorded ==
    /\ inflight # NoCall
    /\ resp' = Response(inflight, 200, error_response)
    /\ inflight' = NoCall
    /\ sent' = <<>>
    /\ UNCHANGED <<sessions, issued, ended, now>>

\* "except Exception": the call raised
gateway_fail ==
    /\ inflight # NoCall
    /\ sessions' = AppendMessage(sessions, inflight, "assistant", error_response)
    /\ resp' = Response(inflight, 200, error_response)
    /\ inflight' = NoCall
    /\ sent' = <<>>
    /\ UNCHANGED <<issued, ended, now>>

get_session_history(session_id) ==
    /\ LoopFree
    /\ IF session_id \notin DOMAIN sessions
       THEN Unauthorized(session_id)
       ELSE /\ sessions' = validate_session(sessions, session_id)
            /\ resp' = Response(session_id, 200, <<>>)
            /\ sent' = <<>>
            /\ UNCHANGED <<issued, ended, now, inflight>>

end_session(session_id) ==
    /\ LoopFree
    /\ IF session_id \notin DOMAIN sessions
       THEN Unauthorized(session_id)
       ELSE /\ sessions' = Remove(validate_session(sessions, session_id), session_id)
            /\ ended' = ended \cup {session_id}
            /\ resp' = Response(session_id, 200, <<>>)
            /\ sent' = <<>>
            /\ UNCHANGED <<issued, now, inflight>>

\* the new instructions added after the ones already in messages[0]
SetSystemMessageAppending(messages, combined_prompt) ==
    IF messages # <<>> /\ messages[1].role = "system"
    THEN [messages EXCEPT ![1].content = @ \o AdditionalHeader \o combined_prompt]
    ELSE <<Message("system", combined_prompt)>> \o messages

\* a system message inserted at the front every time
SetSystemMessageInserting(messages, combined_prompt) ==
    <<Message("system", combined_prompt)>> \o messages

\* messages[0] overwritten, or a system message inserted at the front
SetSystemMessage(messages, combined_prompt) ==
    IF messages # <<>> /\ messages[1].role = "system"
    THEN [messages EXCEPT ![1].content = combined_prompt]
    ELSE <<Message("system", combined_prompt)>> \o messages

SetPrompt(S, session_id, additional_prompt) ==
    [S EXCEPT ![session_id].additional_prompt = Some(additional_prompt),
              ![session_id].messages = SetSystemMessage(@, RebuiltPrompt(additional_prompt))]

add_session_prompt(session_id, additional_prompt) ==
    /\ LoopFree
    /\ IF session_id \notin DOMAIN sessions
       THEN Unauthorized(session_id)
       ELSE LET S == validate_session(sessions, session_id)
            IN  /\ IF IsBlank(additional_prompt)
                   THEN /\ sessions' = S
                        /\ resp' = Response(session_id, 400, <<>>)
                   ELSE /\ sessions' = SetPrompt(S, session_id, additional_prompt)
                        /\ resp' = Response(session_id, 200, <<>>)
                /\ sent' = <<>>
                /\ UNCHANGED <<issued, ended, now, inflight>>

get_session_prompt_info(session_id) ==
    /\ LoopFree
    /\ IF session_id \notin DOMAIN sessions
       THEN Unauthorized(session_id)
       ELSE /\ sessions' = validate_session(sessions, session_id)
            /\ resp' = Response(session_id, 200, <<>>)
            /\ sent' = <<>>
            /\ UNCHANGED <<issued, ended, now, inflight>>

\* datetime.now() moves on
Tick(d) ==
    /\ now' = now + d
    /\ resp' = NoResp
    /\ sent' = <<>>
    /\ UNCHANGED <<sessions, issued, ended, inflight>>

(***************************************************************************)
(* The bounds: a session is created while ids are left, a query is served  *)
(* while the history has room for its two turns.                           *)
(***************************************************************************)
IdsLeft(username, maxTokens) ==
    IF IsBlank(username) THEN TRUE ELSE Cardinality(issued) < maxTokens

HistoryRoom(session_id, message, maxHistory) ==
    IF session_id \notin DOMAIN sessions \/ IsBlank(message)
    THEN TRUE
    ELSE Len(sessions[session_id].messages) + 2 <= maxHistory

\* one request, or the return of the gateway
Serve(Toks, Names, Msgs, Rpls, Prmpts, maxTokens, maxHistory) ==
    \/ \E username \in Names :
          IdsLeft(username, maxTokens) /\ initiate_session(username) /\ UNCHANGED calls
    \/ get_active_sessions /\ UNCHANGED calls
    \/ \E t \in Toks, message \in Msgs :
          HistoryRoom(t, message, maxHistory) /\ query(t, message) /\ UNCHANGED calls
    \/ \E reply \in Rpls : gateway_return(reply) /\ UNCHANGED calls
    \/ gateway_fail /\ UNCHANGED calls
    \/ \E t \in Toks : get_session_history(t) /\ UNCHANGED calls
    \/ \E t \in Toks : end_session(t) /\ UNCHANGED calls
    \/ \E t \in Toks, additional_prompt \in Prmpts :
          add_session_prompt(t, additional_prompt) /\ UNCHANGED calls
    \/ \E t \in Toks : get_session_prompt_info(t) /\ UNCHANGED calls

Next ==
    \/ Serve(1..MaxTokens, StoreUsernames, StoreMessages, StoreReplies, StorePrompts,
             MaxTokens, MaxHistory)
    \/ \E d \in TickSteps : now + d <= MaxTime /\ Tick(d) /\ UNCHANGED calls

Spec == Init /\ [][Next]_vars

NextChat ==
    Serve(1..MaxChatTokens, Usernames, UserMessages, Replies, Prompts,
          MaxChatTokens, MaxChatHistory)

SpecChat == Init /\ [][NextChat]_vars

(***************************************************************************)
(* Requests in parallel.  FastAPI runs the synchronous dependency          *)
(* validate_session in a worker thread and the handler body on the event   *)
(* loop.  A request is accepted by the event loop (Arrive), the worker      *)
(* thread tests "session_id not in sessions" (ThreadCheck) and then writes *)
(* last_activity (ThreadTouch), and the event loop runs the handler body   *)
(* in one piece (Handle) or answers the exception the thread raised        *)
(* (Respond).  The steps of the thread need no event loop; everything else *)
(* waits while the synchronous gateway call of a query holds the loop.     *)
(* The handlers without a dependency, the sweep inside them included, run  *)
(* on the event loop in one piece.                                         *)
(***************************************************************************)
MaxRaceTokens == 1    \* SpecRace: sessions ever created
MaxRaceHistory == 5   \* SpecRace: longest history
MaxCalls == 2         \* SpecRace: requests accepted and not yet answered
MaxPairTokens == 2    \* SpecPair: sessions ever created
MaxPairHistory == 3   \* SpecPair: longest history
MaxPairCalls == 1     \* SpecPair: requests accepted and not yet answered

RaceUsernames == {<<"amy">>}
RaceMessages == {<<"hi">>, <<"I", " ", "HATE", " ", "you">>}
PairMessages == {<<"hi">>}
RaceReplies == {<<"hello", " ", "amy">>}
RacePrompts == {<<"be", " ", "gentle">>}
RaceTickSteps == {25}

Call(op, session_id, arg) ==
    [op |-> op, tok |-> session_id, arg |-> arg, pc |-> "check", status |-> 0]

Moved(r, pc) == (calls (-) SetToBag({r})) (+) SetToBag({[r EXCEPT !.pc = pc]})

Raised(r, status) ==
    (calls (-) SetToBag({r})) (+) SetToBag({[r EXCEPT !.pc = "raised", !.status = status]})

\* the event loop accepts a request and hands validate_session to a thread
Arrive(op, session_id, arg) ==
    /\ LoopFree
    /\ calls' = calls (+) SetToBag({Call(op, session_id, arg)})
    /\ resp' = NoResp
    /\ sent' = <<>>
    /\ UNCHANGED <<sessions, issued, ended, now, inflight>>

\* validate_session, "if session_id not in sessions: raise HTTPException(401)"
ThreadCheck(r) ==
    /\ r.pc = "check"
    /\ calls' = IF r.tok \in DOMAIN sessions THEN Moved(r, "touch") ELSE Raised(r, 401)
    /\ resp' = NoResp
    /\ sent' = <<>>
    /\ UNCHANGED <<sessions, issued, ended, now, inflight>>

\* validate_session, "sessions[session_id]['last_activity'] = datetime.now()":
\* a KeyError when the entry has been deleted since the test
ThreadTouch(r) ==
    /\ r.pc = "touch"
    /\ IF r.tok \in DOMAIN sessions
       THEN /\ sessions' = Touch(sessions, r.tok)
            /\ calls' = Moved(r, "body")
       ELSE /\ calls' = Raised(r, 500)
            /\ UNCHANGED sessions
    /\ resp' = NoResp
    /\ sent' = <<>>
    /\ UNCHANGED <<issued, ended, now, inflight>>

\* the event loop answers the exception of the dependency: 401 for the
\* HTTPException, 500 for the KeyError
Respond(r) ==
    /\ LoopFree
    /\ r.pc = "raised"
    /\ calls' = calls (-) SetToBag({r})
    /\ resp' = Response(r.tok, r.status, <<>>)
    /\ sent' = <<>>
    /\ UNCHANGED <<sessions, issued, ended, now, inflight>>

\* an exception no handler catches: 500 Internal Server Error
ServerError(session_id) ==
    /\ resp' = Response(session_id, 500, <<>>)
    /\ sent' = <<>>
    /\ UNCHANGED <<sessions, issued, ended, now, inflight>>

\* the body of query, entered with the session_id the dependency returned
query_body(session_id, message) ==
    IF IsBlank(message)
    THEN /\ resp' = Response(session_id, 400, <<>>)
         /\ sent' = <<>>
         /\ UNCHANGED <<sessions, issued, ended, now, inflight>>
    ELSE IF session_id \notin DOMAIN sessions
    THEN ServerError(session_id)
    ELSE IF contains_inappropriate_content(message)
    THEN \E kid_friendly_response \in get_kid_friendly_response :
         /\ sessions' =
               AppendMessage(AppendMessage(sessions, session_id, "user", message),
                             session_id, "assistant", kid_friendly_response)
         /\ resp' = Response(session_id, 200, kid_friendly_response)
         /\ sent' = <<>>
         /\ UNCHANGED <<issued, ended, now, inflight>>
    ELSE /\ sessions' = AppendMessage(sessions, session_id, "user", message)
         /\ sent' = sessions'[session_id].messages
         /\ inflight' = session_id
         /\ resp' = NoResp
         /\ UNCHANGED <<issued, ended, now>>

\* the body of get_session_history and of get_session_prompt_info
read_body(session_id) ==
    IF session_id \notin DOMAIN sessions
    THEN ServerError(session_id)
    ELSE /\ resp' = Response(session_id, 200, <<>>)
         /\ sent' = <<>>
         /\ UNCHANGED <<sessions, issued, ended, now, inflight>>

\* the body of end_session
end_session_body(session_id) ==
    IF session_id \notin DOMAIN sessions
    THEN ServerError(session_id)
    ELSE /\ sessions' = Remove(sessions, session_id)
         /\ ended' = ended \cup {session_id}
         /\ resp' = Response(session_id, 200, <<>>)
         /\ sent' = <<>>
         /\ UNCHANGED <<issued, now, inflight>>

\* the body of add_session_prompt
add_session_prompt_body(session_id, additional_prompt) ==
    IF IsBlank(additional_prompt)
    THEN /\ resp' = Response(session_id, 400, <<>>)
         /\ sent' = <<>>
         /\ UNCHANGED <<sessions, issued, ended, now, inflight>>
    ELSE IF session_id \notin DOMAIN sessions
    THEN ServerError(session_id)
    ELSE /\ sessions' = SetPrompt(sessions, session_id, additional_prompt)
         /\ resp' = Response(session_id, 200, <<>>)
         /\ sent' = <<>>
         /\ UNCHANGED <<issued, ended, now, inflight>>

\* the event loop runs the handler body of a validated request
Handle(r) ==
    /\ LoopFree
    /\ r.pc = "body"
    /\ calls' = calls (-) SetToBag({r})
    /\ CASE r.op = "query" -> query_body(r.tok, r.arg)
         [] r.op = "end" -> end_session_body(r.tok)
         [] r.op = "prompt" -> add_session_prompt_body(r.tok, r.arg)
         [] OTHER -> read_body(r.tok)

\* the queries on session_id accepted and not yet run
PendingQueries(session_id) ==
    LET Q == {r \in BagToSet(calls) : r.op = "query" /\ r.tok = session_id}
    IN  BagCardinality([r \in Q |-> calls[r]])

RaceRoom(session_id, maxHistory) ==
    IF session_id \notin DOMAIN sessions
    THEN TRUE
    ELSE Len(sessions[session_id].messages) + 2 * (PendingQueries(session_id) + 1)
            <= maxHistory

\* one step of the event loop, of a worker thread, of the gateway or of the
\* clock
Race(Msgs, maxTokens, maxHistory, maxCalls) ==
    \/ \E username \in RaceUsernames :
          IdsLeft(username, maxTokens) /\ initiate_session(username) /\ UNCHANGED calls
    \/ get_active_sessions /\ UNCHANGED calls
    \/ \E reply \in RaceReplies : gateway_return(reply) /\ UNCHANGED calls
    \/ gateway_fail /\ UNCHANGED calls
    \/ \E d \in RaceTickSteps : now + d <= MaxTime /\ Tick(d) /\ UNCHANGED calls
    \/ \E t \in issued, message \in Msgs :
          /\ BagCardinality(calls) < maxCalls
          /\ RaceRoom(t, maxHistory)
          /\ Arrive("query", t, message)
    \/ \E t \in issued :
          BagCardinality(calls) < maxCalls /\ Arrive("history", t, <<>>)
    \/ \E t \in issued :
          BagCardinality(calls) < maxCalls /\ Arrive("end", t, <<>>)
    \/ \E t \in issued, additional_prompt \in RacePrompts :
          BagCardinality(calls) < maxCalls /\ Arrive("prompt", t, additional_prompt)
    \/ \E t \in issued :
          BagCardinality(calls) < maxCalls /\ Arrive("info", t, <<>>)
    \/ \E r \in BagToSet(calls) : ThreadCheck(r)
    \/ \E r \in BagToSet(calls) : ThreadTouch(r)
    \/ \E r \in BagToSet(calls) : Respond(r)
    \/ \E r \in BagToSet(calls) : Handle(r)

NextRace == Race(RaceMessages, MaxRaceTokens, MaxRaceHistory, MaxCalls)

SpecRace == Init /\ [][NextRace]_vars

NextPair == Race(PairMessages, MaxPairTokens, MaxPairHistory, MaxPairCalls)

SpecPair == Init /\ [][NextPair]_vars

\* the synchronous call client.chat.completions.create comes back: it returns
\* a reply or raises
GatewayAnswers ==
    \/ \E reply \in RaceReplies : gateway_return(reply) /\ UNCHANGED calls
    \/ gateway_fail /\ UNCHANGED calls

\* SpecRace with a gateway call that does not hang for ever
SpecRaceFair == SpecRace /\ WF_vars(GatewayAnswers)

(***************************************************************************)
(* The properties.  They speak of texts in their own words: a text is      *)
(* empty after trimming when every token of it is whitespace.              *)
(***************************************************************************)
AllSpace(t) == \A i \in 1..Len(t) : t[i] \in {" ", "  "}

Last(seq) == seq[Len(seq)]

HistoryOf(t) == sessions[t].messages

\* C1: a query with a non-empty message on a live session lengthens the
\* history of the session by exactly 2, on every branch: an unsafe message
\* adds both turns in one step; a safe one adds the user turn when the gateway
\* is called and the assistant turn when the gateway returns or fails, and
\* nothing else changes the length in between.
C1_HistoryGrowsByTwo ==
    [][\A t \in DOMAIN sessions :
          /\ \A message \in UserMessages :
                (~AllSpace(message) /\ query(t, message)) =>
                    /\ t \in DOMAIN sessions'
                    /\ \/ /\ inflight' = NoCall
                          /\ resp'.status = 200
                          /\ Len(sessions'[t].messages) = Len(sessions[t].messages) + 2
                       \/ /\ inflight' = t
                          /\ Len(sessions'[t].messages) = Len(sessions[t].messages) + 1
          /\ inflight = t =>
                /\ t \in DOMAIN sessions'
                /\ \/ /\ inflight' = t
                      /\ Len(sessions'[t].messages) = Len(sessions[t].messages)
                   \/ /\ inflight' = NoCall
                      /\ resp'.status = 200 /\ resp'.tok = t
                      /\ Len(sessions'[t].messages) = Len(sessions[t].messages) + 1
      ]_vars

\* a session after one exchange answered by the gateway: the system message,
\* the user turn and the assistant turn
C1_Witness ==
    \E t \in DOMAIN sessions :
        /\ Len(HistoryOf(t)) = 3
        /\ HistoryOf(t)[2] = Message("user", <<"hi">>)
        /\ resp = Response(t, 200, <<"hello", " ", "amy">>)
        /\ Last(HistoryOf(t)) = Message("assistant", <<"hello", " ", "amy">>)

\* C2: a query whose message the filter classifies as unsafe does not call the
\* gateway, answers with one of the fixed refusals, and leaves the literal
\* message as a user turn directly followed by that refusal as the assistant
\* turn at the end of the history.
C2_UnsafeMessageRefused ==
    [][\A t \in DOMAIN sessions, message \in UserMessages :
          (/\ ~AllSpace(message)
           /\ contains_inappropriate_content(message)
           /\ query(t, message)) =>
              /\ sent' = <<>>
              /\ inflight' = NoCall
              /\ resp'.tok = t /\ resp'.status = 200
              /\ resp'.body \in KIDS_FRIENDLY_RESPONSES
              /\ t \in DOMAIN sessions'
              /\ sessions'[t].messages =
                    sessions[t].messages
                        \o <<Message("user", message), Message("assistant", resp'.body)>>
      ]_vars

\* "I HATE you" was refused
C2_Witness ==
    \E t \in DOMAIN sessions :
        /\ resp.tok = t /\ resp.status = 200
        /\ resp.body \in KIDS_FRIENDLY_RESPONSES
        /\ sent = <<>>
        /\ Len(HistoryOf(t)) >= 3
        /\ HistoryOf(t)[Len(HistoryOf(t)) - 1] = Message("user", <<"I", " ", "HATE", " ", "you">>)
        /\ Last(HistoryOf(t)) = Message("assistant", resp.body)

\* a request of any authenticated handler that presents the token t
Presents(t) ==
    \/ \E message \in UserMessages : query(t, message)
    \/ get_session_history(t)
    \/ end_session(t)
    \/ \E additional_prompt \in Prompts : add_session_prompt(t, additional_prompt)
    \/ get_session_prompt_info(t)

\* C3: once end_session has succeeded on a session, its id is never in the
\* store again, every later request that presents the id is answered 401
\* (NotFoundError) and changes nothing, and no later initiate_session returns
\* the id.
C3_EndedStaysEnded ==
    [][\A t \in ended :
          /\ t \notin DOMAIN sessions'
          /\ Presents(t) => (resp' = Response(t, 401, <<>>) /\ sessions' = sessions)
          /\ (\E username \in Usernames : initiate_session(username)) => resp'.tok # t
      ]_vars

\* a request presenting an ended id was answered 401 while a session with a
\* later id is live
C3_Witness ==
    /\ resp.status = 401
    /\ resp.tok \in ended
    /\ \E t \in DOMAIN sessions : t > resp.tok

\* the session has been idle for more than 24 hours
IdleTooLong(t) == sessions[t].last_activity < now - 24

\* C4 as claimed: a request that presents the id of a session idle for more
\* than 24 hours is answered 401 and leaves the store as it is, swept or not.
C4_ExpiredDoesNotResolve ==
    [][\A t \in DOMAIN sessions :
          (IdleTooLong(t) /\ Presents(t)) => (resp'.status = 401 /\ sessions' = sessions)
      ]_vars

\* the sessions a sweep at the current time keeps
Kept == {t \in DOMAIN sessions : sessions[t].last_activity >= now - 24}

\* C5: the sweep, in get_active_sessions and before the insertion of
\* initiate_session, removes exactly the sessions idle for more than 24 hours
\* and leaves every other session as it was: one idle for 25 hours goes, one
\* idle for 23 hours (or for 24 hours sharp) stays.
C5_SweepRemovesExactlyExpired ==
    [][LET swept == get_active_sessions
           created == \E username \in Usernames :
                          ~AllSpace(username) /\ initiate_session(username)
       IN  (swept \/ created) =>
              /\ DOMAIN sessions' \cap DOMAIN sessions = Kept
              /\ swept => (DOMAIN sessions' = Kept /\ resp'.count = Cardinality(Kept))
              /\ \A t \in Kept : sessions'[t] = sessions[t]
              /\ \A t \in DOMAIN sessions :
                    /\ sessions[t].last_activity = now - 25 => t \notin DOMAIN sessions'
                    /\ sessions[t].last_activity \in {now - 23, now - 24} =>
                          t \in DOMAIN sessions'
      ]_vars

\* get_active_sessions, 25 hours after both sessions were created, has removed
\* the one not used since and kept the other
C5_Witness ==
    /\ now = 25
    /\ resp.status = 200 /\ resp.count = 1
    /\ Cardinality(issued) = 2 /\ ended = {}
    /\ \E t \in DOMAIN sessions : sessions[t].created_at = 0

\* C6 as claimed: a request answered 400 (ValidationError) leaves the store,
\* every field of every session included, as it was.
C6_RejectedChangesNothing ==
    [][resp'.status = 400 => sessions' = sessions]_vars

\* the system message of a session without an additional prompt
BasePromptMessage ==
    [role |-> "system",
     content |-> <<"You are a helpful, friendly, and safe AI assistant designed specifically for children.">>]

\* C7: initiate_session with a username that is empty after trimming answers
\* 400 and leaves the store as it was; with any other username it adds exactly
\* one session, under an id that was not in the store, with created_at =
\* last_activity = now, no additional prompt and a history of the base system
\* message alone.
C7_CreateSession ==
    [][\A username \in Usernames :
          initiate_session(username) =>
              IF AllSpace(username)
              THEN /\ resp'.status = 400
                   /\ sessions' = sessions
              ELSE /\ resp'.status = 200
                   /\ DOMAIN sessions' \ DOMAIN sessions = {resp'.tok}
                   /\ sessions'[resp'.tok] =
                         [username |-> username,
                          created_at |-> now,
                          last_activity |-> now,
                          additional_prompt |-> <<>>,
                          messages |-> <<BasePromptMessage>>]
      ]_vars

\* a second session was created while the first was live, and a blank
\* username was turned away with both live
C7_Witness ==
    /\ DOMAIN sessions = {1, 2}
    /\ sessions[2].messages = <<BasePromptMessage>>
    /\ resp = Response(0, 400, <<>>)

\* sub occurs in t
Occurs(sub, t) ==
    \E i \in 0..(Len(t) - Len(sub)) : \A j \in 1..Len(sub) : t[i + j] = sub[j]

BasePromptText == BasePromptMessage.content

\* the system message of a session whose additional prompt is text
WithAddendum(text) ==
    [role |-> "system",
     content |-> BasePromptText
                   \o <<"\n\n", "Additional instructions for this session:", " ">>
                   \o text]

\* C8: a successful add_session_prompt(t, text) stores text as the additional
\* prompt and makes history[0] the base prompt followed by the addendum text.
\* The result depends on text alone: an addendum set before is gone from
\* history[0], and setting the text already set changes nothing in it.
C8_PromptReplaced ==
    [][\A t \in DOMAIN sessions, text \in Prompts :
          (~AllSpace(text) /\ add_session_prompt(t, text)) =>
              /\ resp' = Response(t, 200, <<>>)
              /\ sessions'[t].additional_prompt = <<text>>
              /\ sessions'[t].messages[1] = WithAddendum(text)
              /\ Occurs(BasePromptText, sessions'[t].messages[1].content)
              /\ Occurs(text, sessions'[t].messages[1].content)
              /\ \A old \in Prompts :
                    (sessions[t].additional_prompt = <<old>> /\ old # text) =>
                        ~Occurs(old, sessions'[t].messages[1].content)
              /\ sessions[t].additional_prompt = <<text>> =>
                    sessions'[t].messages[1] = sessions[t].messages[1]
      ]_vars

\* "be gentle" is the additional prompt of a session in the middle of a
\* conversation, and add_session_prompt has just succeeded
C8_Witness ==
    \E t \in DOMAIN sessions :
        /\ resp = Response(t, 200, <<>>)
        /\ sessions[t].additional_prompt = << <<"be", " ", "gentle">> >>
        /\ HistoryOf(t)[1] = WithAddendum(<<"be", " ", "gentle">>)
        /\ Len(HistoryOf(t)) = 3

\* history[0] is the system message composed for the current additional prompt
SystemMessageCurrent(t) ==
    /\ HistoryOf(t) # <<>>
    /\ HistoryOf(t)[1] =
          IF sessions[t].additional_prompt = <<>>
          THEN BasePromptMessage
          ELSE WithAddendum(sessions[t].additional_prompt[1])

\* C9: every live session has a non-empty history whose first message is the
\* system message composed for its current additional prompt, and no step
\* changes or removes a message after the first: the old history from index
\* 1 on is a prefix of the new one.
C9_SystemMessageFirst ==
    /\ [](\A t \in DOMAIN sessions : SystemMessageCurrent(t))
    /\ [][\A t \in DOMAIN sessions \cap DOMAIN sessions' :
            /\ Len(sessions'[t].messages) >= Len(sessions[t].messages)
            /\ \A i \in 2..Len(sessions[t].messages) :
                  sessions'[t].messages[i] = sessions[t].messages[i]
        ]_vars

\* a query has just been answered in a session with an addendum
C9_Witness ==
    \E t \in DOMAIN sessions :
        /\ sessions[t].additional_prompt # <<>>
        /\ Len(HistoryOf(t)) = 3
        /\ SystemMessageCurrent(t)
        /\ resp.tok = t /\ resp.status = 200 /\ resp.body # <<>>

\* a response that ends a query with a reply
QueryExit ==
    /\ resp'.status = 200
    /\ \/ \E t \in DOMAIN sessions, message \in UserMessages : query(t, message)
       \/ \E reply \in Replies : gateway_return(reply)
       \/ gateway_fail

\* C10: a failure of the gateway ends the query at once with status 200 and
\* the fixed fallback text, no second call to the gateway is made, and the
\* fallback is appended as the assistant turn.  Whatever way a query ends with
\* a reply, the reply is the content of the last message of the history, and
\* that message is an assistant turn.
C10_FailureAbsorbed ==
    [][/\ gateway_fail =>
            /\ inflight \in DOMAIN sessions
            /\ resp' = Response(inflight, 200,
                    <<"Oops! I'm having a little trouble right now. Can you try asking me something else?">>)
            /\ inflight' = NoCall /\ sent' = <<>>
            /\ sessions'[inflight].messages =
                  Append(sessions[inflight].messages, Message("assistant", resp'.body))
       /\ QueryExit =>
            /\ resp'.tok \in DOMAIN sessions'
            /\ Last(sessions'[resp'.tok].messages) = Message("assistant", resp'.body)
      ]_vars

\* the first query of a session ended by a failure of the gateway
C10_Witness ==
    \E t \in DOMAIN sessions :
        /\ resp = Response(t, 200, error_response)
        /\ Len(HistoryOf(t)) = 3
        /\ HistoryOf(t)[2] = Message("user", <<"hi">>)
        /\ HistoryOf(t)[3] = Message("assistant", error_response)
\* the replies of the gateway the filter classifies as unsafe
UnsafeReplies == {reply \in Replies : contains_inappropriate_content(reply)}

\* C11: when the gateway returns a reply the filter classifies as unsafe, the
\* query ends with status 200, the fixed placeholder is returned and appended
\* as the assistant turn in place of the reply.  No response body and no
\* assistant message of any history is an unsafe reply of the gateway.
C11_UnsafeReplyReplaced ==
    /\ [][\A reply \in UnsafeReplies :
            gateway_return(reply) =>
                /\ resp' = Response(inflight, 200,
                        <<"I want to make sure I'm being helpful and appropriate. Let me think of a better way to answer that! What else would you like to know?">>)
                /\ inflight' = NoCall
                /\ sessions'[inflight].messages =
                      Append(sessions[inflight].messages, Message("assistant", resp'.body))
        ]_vars
    /\ [](/\ resp.body \notin UnsafeReplies
          /\ \A t \in DOMAIN sessions : \A i \in 1..Len(HistoryOf(t)) :
                HistoryOf(t)[i].role = "assistant" => HistoryOf(t)[i].content \notin UnsafeReplies)

\* the gateway answered "hi" and the placeholder was returned and stored
C11_Witness ==
    \E t \in DOMAIN sessions :
        /\ UnsafeReplies # {}
        /\ resp = Response(t, 200, BetterWayResponse)
        /\ HistoryOf(t)[Len(HistoryOf(t)) - 1] = Message("user", <<"hi">>)
        /\ Last(HistoryOf(t)) = Message("assistant", BetterWayResponse)

\* the step that answers the accepted request r, or starts its gateway call
Answers(r) == Handle(r) \/ Respond(r)

\* C12: a query with a non-empty message that runs in parallel with an
\* end_session on its session has one of two outcomes.  While the session is
\* not ended it is processed: refused with both turns appended, or handed to
\* the gateway with its user turn appended.  Once the session is ended it is
\* answered 401.  It has no other outcome.
C12_EndedOrProcessed ==
    [][\A r \in BagToSet(calls) :
          (r.op = "query" /\ ~AllSpace(r.arg) /\ Answers(r)) =>
              IF r.tok \in ended
              THEN resp' = Response(r.tok, 401, <<>>) /\ sessions' = sessions
              ELSE r.tok \in DOMAIN sessions =>
                      \/ /\ resp'.status = 200
                         /\ Len(sessions'[r.tok].messages) = Len(sessions[r.tok].messages) + 2
                      \/ /\ inflight' = r.tok
                         /\ Len(sessions'[r.tok].messages) = Len(sessions[r.tok].messages) + 1
      ]_vars

\* the turns of history after the system message come in pairs, a user turn
\* directly followed by its assistant turn; only the query that waits for the
\* gateway has its user turn last
TurnsPaired(t) ==
    /\ \A i \in 2..Len(HistoryOf(t)) :
          HistoryOf(t)[i].role = IF i % 2 = 0 THEN "user" ELSE "assistant"
    /\ Len(HistoryOf(t)) % 2 = 0 => inflight = t

\* C13: queries that run in parallel on one session do not interleave.  The
\* two turns of every query are adjacent in the history; the messages a query
\* hands to the gateway are the whole history before it, every earlier query
\* with both its turns, followed by its own user turn; and no step removes or
\* changes a turn once appended.
C13_QueriesDoNotInterleave ==
    /\ [](\A t \in DOMAIN sessions : TurnsPaired(t))
    /\ [][/\ sent' # <<>> =>
               /\ inflight' \in DOMAIN sessions
               /\ Len(sessions[inflight'].messages) % 2 = 1
               /\ \E message \in RaceMessages :
                     sent' = Append(sessions[inflight'].messages, Message("user", message))
               /\ sessions'[inflight'].messages = sent'
          /\ \A t \in DOMAIN sessions \cap DOMAIN sessions' :
               /\ Len(sessions'[t].messages) >= Len(sessions[t].messages)
               /\ \A i \in 2..Len(sessions[t].messages) :
                     sessions'[t].messages[i] = sessions[t].messages[i]
        ]_vars

\* a query of a session waits for the gateway while a second query on the
\* same session is validated and ready to run
C13_Witness ==
    \E t \in DOMAIN sessions :
        /\ inflight = t
        /\ Len(HistoryOf(t)) = 2
        /\ \E r \in BagToSet(calls) : r.op = "query" /\ r.tok = t /\ r.pc = "body"

\* C14: while the query of a session A waits for the gateway, a request on
\* another live session B, or the creation of a session, can be started.
C14_OthersNotBlocked ==
    \A B \in DOMAIN sessions :
        (inflight # NoCall /\ B # inflight) =>
            /\ ENABLED Arrive("history", B, <<>>)
            /\ ENABLED Arrive("query", B, <<"hi">>)
            /\ ENABLED Arrive("end", B, <<>>)
            /\ ENABLED (initiate_session(<<"amy">>) /\ UNCHANGED calls)

\* C15: a request that runs in parallel with a sweep ends as it would have
\* without it: with its normal answer (200, or 400 for a blank text), with the
\* start of its gateway call, or with 401 when the sweep removed the session.
\* The sessions end_session removed are left to C12.
C15_SweepInterleavesSafely ==
    [][\A r \in BagToSet(calls) :
          (r.tok \notin ended /\ Answers(r)) =>
              \/ inflight' = r.tok
              \/ resp'.tok = r.tok /\ resp'.status \in {200, 400, 401}
      ]_vars

\* C16: the messages handed to the gateway are the whole history of the
\* session, nothing left out: the system message composed for the current
\* additional prompt first, every turn of the history before the query in
\* order, and the message of the query as the last, user, turn.
C16_FullHistorySent ==
    [][sent' # <<>> =>
          /\ inflight' \in DOMAIN sessions
          /\ Len(sent') = Len(sessions[inflight'].messages) + 1
          /\ \A i \in 1..Len(sessions[inflight'].messages) :
                sent'[i] = sessions[inflight'].messages[i]
          /\ sent'[1] =
                IF sessions[inflight'].additional_prompt = <<>>
                THEN BasePromptMessage
                ELSE WithAddendum(sessions[inflight'].additional_prompt[1])
          /\ \E r \in BagToSet(calls) :
                /\ r.op = "query" /\ r.tok = inflight' /\ Handle(r)
                /\ Last(sent') = Message("user", r.arg)
      ]_vars

\* the second query of a session with an addendum is handed to the gateway
\* with the first exchange before it
C16_Witness ==
    /\ Len(sent) = 4
    /\ sent[1] = WithAddendum(<<"be", " ", "gentle">>)
    /\ sent[2].role = "user" /\ sent[3].role = "assistant"
    /\ sent[4] = Message("user", <<"hi">>)

\* C17: a query with an empty or whitespace-only message is answered 400
\* whether or not its token is in the store: the message is tested before the
\* token is resolved.
C17_BlankRejectedFirst ==
    [][\A t \in issued, message \in UserMessages :
          (AllSpace(message) /\ query(t, message)) => resp'.status = 400
      ]_vars

\* the session is idle for no longer than 24 hours at the time at
Fresh(session_data, at) == session_data.last_activity >= at - 24

\* C18: get_active_sessions sweeps before it counts and a successful
\* initiate_session sweeps before it inserts: the count is the number of
\* sessions idle for no longer than 24 hours, and after either of them no
\* session of the store is idle for longer.
C18_SweepBeforeCountAndCreate ==
    [][/\ get_active_sessions =>
            /\ resp'.count = Cardinality({t \in DOMAIN sessions : Fresh(sessions[t], now)})
            /\ \A t \in DOMAIN sessions' : Fresh(sessions'[t], now)
       /\ ((\E username \in Usernames : initiate_session(username)) /\ resp'.status = 200) =>
            \A t \in DOMAIN sessions' : Fresh(sessions'[t], now)
      ]_vars

\* two sessions were created, one was idle for 25 hours, and the count
\* reported is 1
C18_Witness ==
    /\ now = 25
    /\ Cardinality(issued) = 2 /\ ended = {}
    /\ Cardinality(DOMAIN sessions) = 1
    /\ resp.status = 200 /\ resp.tok = 0 /\ resp.count = 1

\* C19: created_at and username of a live session never change,
\* last_activity never decreases and is the current time after every request
\* that presented the token of the session and was not answered 401, and
\* created_at <= last_activity in every state.
C19_TimestampsOrdered ==
    /\ [](\A t \in DOMAIN sessions : sessions[t].created_at <= sessions[t].last_activity)
    /\ [][\A t \in DOMAIN sessions \cap DOMAIN sessions' :
            /\ sessions'[t].created_at = sessions[t].created_at
            /\ sessions'[t].username = sessions[t].username
            /\ sessions'[t].last_activity >= sessions[t].last_activity
            /\ sessions'[t].last_activity = now \/ ~Presents(t)
        ]_vars

\* a session created at hour 0 was validated at hour 23
C19_Witness ==
    \E t \in DOMAIN sessions :
        /\ sessions[t].created_at = 0
        /\ sessions[t].last_activity = 23
        /\ now = 23
        /\ resp.tok = t /\ resp.status \in {200, 400}

\* C20: no list of messages handed to the gateway holds a user message the
\* filter classifies as inappropriate.
C20_UnsafeNeverSent ==
    \A i \in 1..Len(sent) :
        sent[i].role = "user" => ~contains_inappropriate_content(sent[i].content)

\* C21: a query that has appended its user turn and called the gateway runs
\* to completion.  While it waits no step removes the session, changes its
\* history or ends the call; the step that ends the call appends exactly one
\* assistant turn and answers 200 with its content; and, the gateway
\* eventually returning or failing, that step eventually happens.
C21_CallCompletes ==
    /\ [][inflight # NoCall =>
            /\ inflight \in DOMAIN sessions'
            /\ \/ /\ inflight' = inflight
                  /\ sessions'[inflight].messages = sessions[inflight].messages
               \/ /\ inflight' = NoCall
                  /\ resp'.tok = inflight /\ resp'.status = 200
                  /\ sessions'[inflight].messages =
                        Append(sessions[inflight].messages, Message("assistant", resp'.body))
        ]_vars
    /\ (inflight # NoCall) ~>
          (/\ inflight = NoCall
           /\ resp.status = 200 /\ resp.tok \in DOMAIN sessions
           /\ Last(HistoryOf(resp.tok)) = Message("assistant", resp.body))

\* the second query of a session was answered by the gateway while another
\* request on the session was waiting for the event loop
C21_Witness ==
    \E t \in DOMAIN sessions :
        /\ inflight = NoCall
        /\ resp = Response(t, 200, <<"hello", " ", "amy">>)
        /\ Len(HistoryOf(t)) = 5
        /\ HistoryOf(t)[4].role = "user"
        /\ HistoryOf(t)[5] = Message("assistant", <<"hello", " ", "amy">>)
        /\ calls # EmptyBag

\* C22: the history of a live session with no query in progress has odd
\* length; its first message is the one system message, and the messages
\* after it alternate user, assistant, user, assistant.
C22_HistoryAlternates ==
    \A t \in DOMAIN sessions :
        inflight # t =>
            /\ Len(sessions[t].messages) % 2 = 1
            /\ sessions[t].messages[1].role = "system"
            /\ \A i \in 2..Len(sessions[t].messages) :
                  /\ i % 2 = 0 => sessions[t].messages[i].role = "user"
                  /\ i % 2 = 1 => sessions[t].messages[i].role = "assistant"

\* a session at rest after a refused exchange, a change of the additional
\* prompt and an exchange the gateway answered
C22_Witness ==
    \E t \in DOMAIN sessions :
        /\ inflight = NoCall
        /\ Len(sessions[t].messages) = 5
        /\ sessions[t].additional_prompt # <<>>
        /\ sessions[t].messages[2] = Message("user", <<"I", " ", "HATE", " ", "you">>)
        /\ sessions[t].messages[5] = Message("assistant", <<"hello", " ", "amy">>)

\* C23: a request that presents a token that is not in the store is answered
\* 401 and leaves the store as it was: no session created, removed or
\* touched, no history changed.
C23_UnknownTokenChangesNothing ==
    [][\A t \in (1..MaxTokens) \ DOMAIN sessions :
          Presents(t) =>
              /\ resp' = Response(t, 401, <<>>)
              /\ sessions' = sessions
              /\ issued' = issued /\ ended' = ended
      ]_vars

\* a token never handed out was presented while a session was live
C23_Witness ==
    \E t \in (1..MaxTokens) \ issued :
        /\ resp = Response(t, 401, <<>>)
        /\ DOMAIN sessions # {}
        /\ ended = {}

====
